---- MODULE Spec2Model ----
(***************************************************************************)
(* Raster index mapping, snake reassembly, column extraction and the       *)
(* max-burn peak finder of utils/raster.py; setGovRobot and waitGov of     *)
(* gov_lib.py.                                                             *)
(***************************************************************************)
EXTENDS Integers, Sequences, FiniteSets, TLC

VARIABLES
    pc,           \* position of the running call
    k,            \* calculate_matrix_index: linear index
    M,            \* number of rows passed by the caller
    N,            \* number of columns passed by the caller
    pattern,      \* scan direction passed by the caller
    rc,           \* value returned by calculate_matrix_index
    flat_k,       \* outcome of calculate_flattened_index
    flattened,    \* create_snake_array: flat result list, in acquisition order
    raster_type,  \* create_snake_array: direction argument
    array_2d,     \* outcome of create_snake_array
    raster_def,   \* raster definition: [rowDefs |-> list of row segments]
    max_index,    \* get_raster_max_col: index in the flat result list
    max_col,      \* column returned by get_raster_max_col
    col_indices,  \* list returned by get_flattened_indices_of_max_col
    raster_shape, \* outcome of determine_raster_shape
    heap,         \* the ndarray objects that exist, by reference
    array,        \* peakfind_maxburn: reference to the caller's matrix
    num_iter,     \* peakfind_maxburn: iteration cap
    arr_work,     \* reference to the working copy
    indices,      \* list of peaks found so far
    iterate,      \* loop counter
    peak_ret,     \* value returned by peakfind_maxburn
    state,        \* setGovRobot: governor state asked for
    wait,         \* setGovRobot: wait argument
    status,       \* the status object gov_robot.set made, if it made one
    govStatus,    \* setGovRobot: local variable, a reference or unbound
    log,          \* records written to the logger, in order
    gov_ret       \* what the call of setGovRobot ended with

idxVars == <<k, pattern, rc, flat_k>>
snakeVars == <<flattened, raster_type, array_2d>>
rasterVars == <<raster_def, max_index, max_col, col_indices, raster_shape>>
peakVars == <<heap, array, num_iter, arr_work, indices, iterate, peak_ret>>
govVars == <<state, wait, status, govStatus, log, gov_ret>>
vars == <<pc, M, N, idxVars, snakeVars, rasterVars, peakVars, govVars>>

(* ------------------------------ bounds --------------------------------- *)
\* calculate_matrix_index is called for grids of 1..MaxM rows, 1..MaxN columns
MaxM == 3
MaxN == 3
\* create_snake_array and peakfind_maxburn are run on grids of every shape
\* with at most MaxCells cells
MaxCells == 6
\* samples of a flat result list are drawn from 0..MaxSample
MaxSample == 1
\* a raster definition has at most MaxSegs row segments of at most MaxSteps steps
MaxSegs == 3
MaxSteps == 3
\* peakfind_maxburn is run on matrices holding values in -1..MaxVal, with
\* num_iter in 0..MaxIter
MaxVal == 1
MaxIter == 2

(* ------------------------- python value helpers ------------------------ *)
\* Python's None as a pattern argument
PyNone == "None"
\* what a function that falls off its end hands back (None)
NoReturn == <<>>
\* an int that was returned / an exception that was raised
Returned(v) == [raised |-> FALSE, value |-> v, exc |-> ""]
Raise(e) == [raised |-> TRUE, value |-> 0, exc |-> e]
Raised == Raise("ValueError")
\* value of a variable that the running call has not assigned yet
Unset == <<>>

\* the variables of the calls a specification does not make
IndexUnused == k = Unset /\ pattern = Unset /\ rc = Unset /\ flat_k = Unset
SnakeUnused == flattened = Unset /\ raster_type = Unset /\ array_2d = Unset
RasterUnused ==
    /\ raster_def = Unset /\ max_index = Unset /\ max_col = Unset
    /\ col_indices = Unset /\ raster_shape = Unset
PeakUnused ==
    /\ heap = Unset /\ array = Unset /\ num_iter = Unset /\ arr_work = Unset
    /\ indices = Unset /\ iterate = Unset /\ peak_ret = Unset
GovUnused ==
    /\ state = Unset /\ wait = Unset /\ status = Unset /\ govStatus = Unset
    /\ log = Unset /\ gov_ret = Unset

Patterns == {"horizontal", "vertical", PyNone, "diagonal"}
Snaking == {"horizontal", "vertical"}

(* ------------------------ calculate_matrix_index ----------------------- *)
\* variant: no row or column is reversed
calculate_matrix_index_noflip(kk, MM, NN, pat) ==
    IF pat = "horizontal" THEN
        LET i == kk \div NN IN <<i, kk - (i * NN)>>
    ELSE IF pat = "vertical" THEN
        LET j == kk \div MM IN <<kk - (j * MM), j>>
    ELSE NoReturn

\* variant: the reversed branch forgets the - 1
calculate_matrix_index_offbyone(kk, MM, NN, pat) ==
    IF pat = "horizontal" THEN
        LET i == kk \div NN IN
        IF i % 2 = 0 THEN <<i, kk - (i * NN)>>
        ELSE <<i, NN - (kk - (i * NN))>>
    ELSE IF pat = "vertical" THEN
        LET j == kk \div MM IN
        IF j % 2 = 0 THEN <<kk - (j * MM), j>>
        ELSE <<MM - (kk - (j * MM)), j>>
    ELSE NoReturn

\* variant: the even rows and columns are the reversed ones
calculate_matrix_index_parity(kk, MM, NN, pat) ==
    IF pat = "horizontal" THEN
        LET i == kk \div NN IN
        IF i % 2 = 1 THEN <<i, kk - (i * NN)>>
        ELSE <<i, NN - (kk - (i * NN)) - 1>>
    ELSE IF pat = "vertical" THEN
        LET j == kk \div MM IN
        IF j % 2 = 1 THEN <<kk - (j * MM), j>>
        ELSE <<MM - (kk - (j * MM)) - 1, j>>
    ELSE NoReturn

calculate_matrix_index(kk, MM, NN, pat) ==
    IF pat = "horizontal" THEN
        LET i == kk \div NN IN
        IF i % 2 = 0 THEN <<i, kk - (i * NN)>>
        ELSE <<i, NN - (kk - (i * NN)) - 1>>
    ELSE IF pat = "vertical" THEN
        LET j == kk \div MM IN
        IF j % 2 = 0 THEN <<kk - (j * MM), j>>
        ELSE <<MM - (kk - (j * MM)) - 1, j>>
    ELSE NoReturn

(* ----------------------- calculate_flattened_index --------------------- *)
\* The third parameter is named num_cols and the fourth num_rows in the
\* source; callers pass (rows, cols) positionally.
\* variant: the strides follow the parameter names instead
calculate_flattened_index_stride(y, x, num_cols, num_rows, pat) ==
    IF pat = "horizontal" THEN
        IF y % 2 = 0 THEN Returned(y * num_cols + x)
        ELSE Returned(y * num_cols + (num_cols - 1 - x))
    ELSE IF pat = "vertical" THEN
        IF x % 2 = 0 THEN Returned(x * num_rows + y)
        ELSE Returned(x * num_rows + (num_rows - 1 - y))
    ELSE IF pat = PyNone THEN Returned(y * num_cols + x)
    ELSE Raised

\* variant: an unknown pattern is treated like None
calculate_flattened_index_default(y, x, num_cols, num_rows, pat) ==
    IF pat = "horizontal" THEN
        IF y % 2 = 0 THEN Returned(y * num_rows + x)
        ELSE Returned(y * num_rows + (num_rows - 1 - x))
    ELSE IF pat = "vertical" THEN
        IF x % 2 = 0 THEN Returned(x * num_cols + y)
        ELSE Returned(x * num_cols + (num_cols - 1 - y))
    ELSE Returned(y * num_rows + x)

calculate_flattened_index(y, x, num_cols, num_rows, pat) ==
    IF pat = "horizontal" THEN
        IF y % 2 = 0 THEN Returned(y * num_rows + x)
        ELSE Returned(y * num_rows + (num_rows - 1 - x))
    ELSE IF pat = "vertical" THEN
        IF x % 2 = 0 THEN Returned(x * num_cols + y)
        ELSE Returned(x * num_cols + (num_cols - 1 - y))
    ELSE IF pat = PyNone THEN Returned(y * num_rows + x)
    ELSE Raised

(* ------------------- index mapping: one call after another ------------- *)
InitIndex ==
    /\ pc = "index_start"
    /\ M \in 1..MaxM
    /\ N \in 1..MaxN
    /\ pattern \in Patterns
    /\ k \in -1..(MaxM * MaxN)
    /\ k <= M * N
    /\ rc = Unset
    /\ flat_k = Unset
    /\ SnakeUnused
    /\ RasterUnused
    /\ PeakUnused
    /\ GovUnused

\* i, j = calculate_matrix_index(k, M, N, pattern)
MatrixIndex ==
    /\ pc = "index_start"
    /\ rc' = calculate_matrix_index(k, M, N, pattern)
    /\ pc' = "mapped"
    /\ UNCHANGED <<govVars, k, M, N, pattern, flat_k, snakeVars, rasterVars, peakVars>>

\* calculate_flattened_index(i, j, M, N, pattern) on the pair just returned
FlattenedIndex ==
    /\ pc = "mapped"
    /\ rc # NoReturn
    /\ flat_k' = calculate_flattened_index(rc[1], rc[2], M, N, pattern)
    /\ pc' = "flattened"
    /\ UNCHANGED <<govVars, k, M, N, pattern, rc, snakeVars, rasterVars, peakVars>>

NextIndex == MatrixIndex \/ FlattenedIndex

SpecIndex == InitIndex /\ [][NextIndex]_vars

(* ------------------------- index mapping claims ------------------------ *)
ValidCall == pattern \in Snaking /\ 0 <= k /\ k < M * N

\* C1: round trip - for a valid (rows, cols, direction) and 0 <= k < rows*cols,
\* calculate_flattened_index applied to the pair returned by
\* calculate_matrix_index, with the dimensions passed positionally as
\* (rows, cols) and the same direction, returns k.
C1_RoundTrip ==
    (pc = "flattened" /\ ValidCall) => flat_k = Returned(k)

\* a reversed (odd) column of a vertical raster has been mapped and mapped back
C1_Witness ==
    /\ pc = "flattened"
    /\ ValidCall
    /\ pattern = "vertical"
    /\ M >= 2 /\ M # N
    /\ rc[2] % 2 = 1
    /\ rc[1] = 0
    /\ flat_k = Returned(k)

\* C2: bijection - the pairs calculate_matrix_index returns for
\* k = 0 .. rows*cols-1 are pairwise distinct and are exactly the cells (i, j)
\* with 0 <= i < rows, 0 <= j < cols.
C2_Bijection ==
    (pc = "mapped" /\ pattern \in Snaking) =>
        LET cell(kk) == calculate_matrix_index(kk, M, N, pattern) IN
        /\ \A k1, k2 \in 0..(M * N - 1) : k1 # k2 => cell(k1) # cell(k2)
        /\ {cell(kk) : kk \in 0..(M * N - 1)} = (0..(M - 1)) \X (0..(N - 1))

\* the last index of a grid with a reversed row has been mapped
C2_Witness ==
    /\ pc = "mapped"
    /\ pattern = "horizontal"
    /\ M = 2 /\ N = 3
    /\ k = M * N - 1
    /\ rc = <<1, 0>>

\* C9: serpentine parity - horizontal, rows >= 2: index 0 maps to (0, 0),
\* index cols-1 to (0, cols-1) and index cols to (1, cols-1).
C9_SerpentineParity ==
    (pc = "mapped" /\ pattern = "horizontal" /\ M >= 2) =>
        /\ (k = 0 => rc = <<0, 0>>)
        /\ (k = N - 1 => rc = <<0, N - 1>>)
        /\ (k = N => rc = <<1, N - 1>>)

\* the first index of row 1 has been mapped to the right-hand end of that row
C9_Witness ==
    /\ pc = "mapped"
    /\ pattern = "horizontal"
    /\ M >= 2 /\ N >= 2
    /\ k = N
    /\ rc = <<1, N - 1>>

\* the mapping as section 4.1 states it
RefLinearToRc(kk, rows, cols, direction) ==
    CASE direction = "horizontal" ->
            LET i == kk \div cols
                off == kk - i * cols
            IN  <<i, IF i % 2 = 0 THEN off ELSE cols - off - 1>>
      [] direction = "vertical" ->
            LET j == kk \div rows
                off == kk - j * rows
            IN  <<IF j % 2 = 0 THEN off ELSE rows - off - 1, j>>

\* C10: for 0 <= k < rows*cols calculate_matrix_index returns the pair the
\* reference formula gives, and that pair satisfies 0 <= i < rows and
\* 0 <= j < cols.
C10_MatchesReference ==
    (pc = "mapped" /\ ValidCall) =>
        /\ rc = RefLinearToRc(k, M, N, pattern)
        /\ 0 <= rc[1] /\ rc[1] < M
        /\ 0 <= rc[2] /\ rc[2] < N

\* an index in a reversed column of a vertical raster has been mapped
C10_Witness ==
    /\ pc = "mapped"
    /\ pattern = "vertical"
    /\ M = 3 /\ N = 2
    /\ k = 4
    /\ rc = <<1, 1>>

(* ------------------------------ numpy arrays --------------------------- *)
\* a 2-D ndarray: its shape and its cells, indexed from 0
Cells(R, C) == (0..(R - 1)) \X (0..(C - 1))

\* np.array(flat).reshape(R, C), C order; flat is a Python list (flat[k] is
\* the k+1-th element of the sequence)
reshape(flat, R, C) ==
    [shape |-> <<R, C>>,
     data  |-> [c \in Cells(R, C) |-> flat[c[1] * C + c[2] + 1]]]

\* a.T
transpose(a) ==
    [shape |-> <<a.shape[2], a.shape[1]>>,
     data  |-> [c \in Cells(a.shape[2], a.shape[1]) |-> a.data[<<c[2], c[1]>>]]]

\* np.fliplr(a): columns in reverse order
fliplr(a) ==
    [shape |-> a.shape,
     data  |-> [c \in DOMAIN a.data |-> a.data[<<c[1], a.shape[2] - 1 - c[2]>>]]]

\* np.flipud(a): rows in reverse order
flipud(a) ==
    [shape |-> a.shape,
     data  |-> [c \in DOMAIN a.data |-> a.data[<<a.shape[1] - 1 - c[1], c[2]>>]]]

\* a[1::2]: rows 1, 3, 5, ...
GetOddRows(a) ==
    [shape |-> <<a.shape[1] \div 2, a.shape[2]>>,
     data  |-> [c \in Cells(a.shape[1] \div 2, a.shape[2]) |->
                    a.data[<<2 * c[1] + 1, c[2]>>]]]

\* a[:, 1::2]: columns 1, 3, 5, ...
GetOddCols(a) ==
    [shape |-> <<a.shape[1], a.shape[2] \div 2>>,
     data  |-> [c \in Cells(a.shape[1], a.shape[2] \div 2) |->
                    a.data[<<c[1], 2 * c[2] + 1>>]]]

\* a[1::2] = sub
SetOddRows(a, sub) ==
    [a EXCEPT !.data = [c \in DOMAIN a.data |->
        IF c[1] % 2 = 1 THEN sub.data[<<(c[1] - 1) \div 2, c[2]>>]
        ELSE a.data[c]]]

\* a[:, 1::2] = sub
SetOddCols(a, sub) ==
    [a EXCEPT !.data = [c \in DOMAIN a.data |->
        IF c[2] % 2 = 1 THEN sub.data[<<c[1], (c[2] - 1) \div 2>>]
        ELSE a.data[c]]]

(* --------------------------- create_snake_array ------------------------ *)
\* variant: the vertical branch reshapes to (M, N) without transposing
create_snake_array_notranspose(flat, rtype, MM, NN) ==
    IF rtype = "horizontal" THEN
        IF Len(flat) # MM * NN THEN Raise("ValueError")
        ELSE LET a == reshape(flat, MM, NN)
             IN  Returned(SetOddRows(a, fliplr(GetOddRows(a))))
    ELSE IF rtype = "vertical" THEN
        IF Len(flat) # MM * NN THEN Raise("ValueError")
        ELSE LET a == reshape(flat, MM, NN)
             IN  Returned(SetOddCols(a, flipud(GetOddCols(a))))
    ELSE Raise("UnboundLocalError")

\* variant: the number of segments is inferred, reshape(-1, N) / reshape(-1, M)
create_snake_array_infer(flat, rtype, MM, NN) ==
    IF rtype = "horizontal" THEN
        IF Len(flat) % NN # 0 THEN Raise("ValueError")
        ELSE LET a == reshape(flat, Len(flat) \div NN, NN)
             IN  Returned(SetOddRows(a, fliplr(GetOddRows(a))))
    ELSE IF rtype = "vertical" THEN
        IF Len(flat) % MM # 0 THEN Raise("ValueError")
        ELSE LET a == transpose(reshape(flat, Len(flat) \div MM, MM))
             IN  Returned(SetOddCols(a, flipud(GetOddCols(a))))
    ELSE Raise("UnboundLocalError")

create_snake_array(flat, rtype, MM, NN) ==
    IF rtype = "horizontal" THEN
        \* reshape raises when the list does not hold M*N samples
        IF Len(flat) # MM * NN THEN Raise("ValueError")
        ELSE LET a == reshape(flat, MM, NN)
             IN  Returned(SetOddRows(a, fliplr(GetOddRows(a))))
    ELSE IF rtype = "vertical" THEN
        IF Len(flat) # NN * MM THEN Raise("ValueError")
        ELSE LET a == transpose(reshape(flat, NN, MM))
             IN  Returned(SetOddCols(a, flipud(GetOddCols(a))))
    \* neither branch binds array_2d: the return statement fails
    ELSE Raise("UnboundLocalError")

\* the shapes (rows, cols) of the grids with at most MaxCells cells
Shapes == {sh \in (1..MaxCells) \X (1..MaxCells) : sh[1] * sh[2] <= MaxCells}

FlatLists(n) ==
    UNION {[1..len -> 0..MaxSample] : len \in {n - 1, n, n + 1}}

InitSnake ==
    /\ pc = "snake_start"
    /\ \E sh \in Shapes : M = sh[1] /\ N = sh[2]
    /\ raster_type \in {"horizontal", "vertical", PyNone}
    /\ flattened \in FlatLists(M * N)
    /\ array_2d = Unset
    /\ IndexUnused
    /\ RasterUnused
    /\ PeakUnused
    /\ GovUnused

\* create_snake_array(flattened, raster_type, M, N) returns a matrix
SnakeReturn ==
    /\ pc = "snake_start"
    /\ ~create_snake_array(flattened, raster_type, M, N).raised
    /\ array_2d' = create_snake_array(flattened, raster_type, M, N)
    /\ pc' = "snake_done"
    /\ UNCHANGED <<govVars, M, N, flattened, raster_type, idxVars, rasterVars, peakVars>>

\* create_snake_array(flattened, raster_type, M, N) raises
SnakeRaise ==
    /\ pc = "snake_start"
    /\ create_snake_array(flattened, raster_type, M, N).raised
    /\ array_2d' = create_snake_array(flattened, raster_type, M, N)
    /\ pc' = "snake_raised"
    /\ UNCHANGED <<govVars, M, N, flattened, raster_type, idxVars, rasterVars, peakVars>>

NextSnake == SnakeReturn \/ SnakeRaise

SpecSnake == InitSnake /\ [][NextSnake]_vars

\* C3: reassembly agrees with the index mapping - for a flat list of M*N
\* samples and a horizontal or vertical direction, create_snake_array returns
\* an M x N matrix that holds flat[k] at calculate_matrix_index(k, M, N,
\* direction) for every k, so reading the matrix back in linear order gives
\* the flat list again.
C3_Reassembly ==
    (pc \in {"snake_done", "snake_raised"}
        /\ raster_type \in Snaking /\ Len(flattened) = M * N) =>
        /\ ~array_2d.raised
        /\ array_2d.value.shape = <<M, N>>
        /\ DOMAIN array_2d.value.data = Cells(M, N)
        /\ \A kk \in 0..(M * N - 1) :
              array_2d.value.data[calculate_matrix_index(kk, M, N, raster_type)]
                  = flattened[kk + 1]
        /\ [n \in 1..(M * N) |->
              array_2d.value.data[calculate_matrix_index(n - 1, M, N, raster_type)]]
                  = flattened

\* a non-square vertical raster whose reversed column holds two different
\* samples has been reassembled
C3_Witness ==
    /\ pc = "snake_done"
    /\ raster_type = "vertical"
    /\ M = 3 /\ N = 2
    /\ Len(flattened) = 6
    /\ flattened[4] # flattened[6]
    /\ array_2d.value.data[<<0, 1>>] = flattened[6]
    /\ array_2d.value.data[<<2, 1>>] = flattened[4]

(* ------------------------- determine_raster_shape ---------------------- *)
\* variant: the vertical branch does not swap
determine_raster_shape_noswap(rdef) ==
    LET raster_dir ==
            IF rdef.rowDefs[1].start.y = rdef.rowDefs[1].end.y
            THEN "horizontal" ELSE "vertical"
        num_rows == Len(rdef.rowDefs)
        num_cols == rdef.rowDefs[1].numsteps
    IN  <<raster_dir, num_rows, num_cols>>

\* rowDefs[0] of the source is rowDefs[1] here
determine_raster_shape(rdef) ==
    LET raster_dir ==
            IF rdef.rowDefs[1].start.y = rdef.rowDefs[1].end.y
            THEN "horizontal" ELSE "vertical"
        num_rows == Len(rdef.rowDefs)
        num_cols == rdef.rowDefs[1].numsteps
    IN  IF raster_dir = "vertical"
        THEN <<raster_dir, num_cols, num_rows>>
        ELSE <<raster_dir, num_rows, num_cols>>

(* --------------------------- get_raster_max_col ------------------------ *)
get_raster_max_col(rdef, idx) ==
    LET shape == determine_raster_shape(rdef)
        ij == calculate_matrix_index(idx, shape[2], shape[3], shape[1])
    IN  ij[2]

(* -------------------- get_flattened_indices_of_max_col ----------------- *)
\* variant: the shape is passed as (num_cols, num_rows)
get_flattened_indices_of_max_col_swapped(rdef, col) ==
    LET shape == determine_raster_shape(rdef)
        raster_dir == shape[1]
        num_rows == shape[2]
        num_cols == shape[3]
    IN  [n \in 1..num_rows |->
            calculate_flattened_index(n - 1, col, num_cols, num_rows, raster_dir).value]

\* variant: the loop runs over range(num_cols)
get_flattened_indices_of_max_col_range(rdef, col) ==
    LET shape == determine_raster_shape(rdef)
        raster_dir == shape[1]
        num_rows == shape[2]
        num_cols == shape[3]
    IN  [n \in 1..num_cols |->
            calculate_flattened_index(n - 1, col, num_rows, num_cols, raster_dir).value]

\* the list built by the loop over i in range(num_rows); entry n is the
\* index appended for i = n - 1
get_flattened_indices_of_max_col(rdef, col) ==
    LET shape == determine_raster_shape(rdef)
        raster_dir == shape[1]
        num_rows == shape[2]
        num_cols == shape[3]
    IN  [n \in 1..num_rows |->
            calculate_flattened_index(n - 1, col, num_rows, num_cols, raster_dir).value]

\* row segments: along x (start.y = end.y) or along y, with 1..MaxSteps steps
RowSegments ==
    {[start |-> [x |-> 0, y |-> 0], end |-> [x |-> 1 - dy, y |-> dy], numsteps |-> n] :
        dy \in {0, 1}, n \in 1..MaxSteps}

RasterDefs ==
    {[rowDefs |-> segs] : segs \in UNION {[1..len -> RowSegments] : len \in 1..MaxSegs}}

\* number of cells of the grid determine_raster_shape derives
GridSize(rdef) ==
    determine_raster_shape(rdef)[2] * determine_raster_shape(rdef)[3]

InitRaster ==
    /\ pc = "raster_start"
    /\ raster_def \in RasterDefs
    /\ max_index \in 0..(MaxSegs * MaxSteps - 1)
    /\ max_index < GridSize(raster_def)
    /\ max_col = Unset
    /\ col_indices = Unset
    /\ raster_shape = Unset
    /\ M = Unset /\ N = Unset
    /\ IndexUnused
    /\ SnakeUnused
    /\ PeakUnused
    /\ GovUnused

\* max_col = get_raster_max_col(raster_def, max_index)
GetRasterMaxCol ==
    /\ pc = "raster_start"
    /\ max_col' = get_raster_max_col(raster_def, max_index)
    /\ pc' = "have_col"
    /\ UNCHANGED <<govVars, raster_def, max_index, col_indices, raster_shape,
                   M, N, idxVars, snakeVars, peakVars>>

\* indices = get_flattened_indices_of_max_col(raster_def, max_col)
GetFlattenedIndicesOfMaxCol ==
    /\ pc = "have_col"
    /\ col_indices' = get_flattened_indices_of_max_col(raster_def, max_col)
    /\ pc' = "have_indices"
    /\ UNCHANGED <<govVars, raster_def, max_index, max_col, raster_shape,
                   M, N, idxVars, snakeVars, peakVars>>

NextRaster == GetRasterMaxCol \/ GetFlattenedIndicesOfMaxCol

SpecRaster == InitRaster /\ [][NextRaster]_vars

\* the elements of a list
Elems(list) == {list[n] : n \in 1..Len(list)}

\* C4: column extraction consistency - for a raster definition with at least
\* one segment and numsteps >= 1 and a linear index k of its grid, the list
\* get_flattened_indices_of_max_col returns for the column
\* get_raster_max_col(raster_def, k) contains k.
C4_ColumnContainsIndex ==
    pc = "have_indices" => max_index \in Elems(col_indices)

\* the column of an index in the second segment of a non-square horizontal
\* raster has been extracted
C4_Witness ==
    /\ pc = "have_indices"
    /\ determine_raster_shape(raster_def) = <<"horizontal", 2, 3>>
    /\ max_index = 3
    /\ max_col = 2
    /\ col_indices = <<2, 3>>

(* ----------------------------- peakfind_maxburn ------------------------ *)
PyMax(a, b) == IF a >= b THEN a ELSE b
PyMin(a, b) == IF a <= b THEN a ELSE b

\* a.max()
NdMax(a) ==
    CHOOSE v \in {a.data[c] : c \in DOMAIN a.data} :
        \A c \in DOMAIN a.data : a.data[c] <= v

\* the element at position f of a in C (row-major) order
FlatAt(a, f) == a.data[<<f \div a.shape[2], f % a.shape[2]>>]

\* variant: the last occurrence of the maximum
argmax_last(a) ==
    CHOOSE f \in 0..(a.shape[1] * a.shape[2] - 1) :
        /\ FlatAt(a, f) = NdMax(a)
        /\ \A g \in (f + 1)..(a.shape[1] * a.shape[2] - 1) : FlatAt(a, g) # NdMax(a)

\* np.argmax(a): position, in the flattened array, of the first occurrence
\* of the maximum
argmax(a) ==
    CHOOSE f \in 0..(a.shape[1] * a.shape[2] - 1) :
        /\ FlatAt(a, f) = NdMax(a)
        /\ \A g \in 0..(f - 1) : FlatAt(a, g) # NdMax(a)

\* np.unravel_index(f, shape)
unravel_index(f, shape) == <<f \div shape[2], f % shape[2]>>

\* the positions a slice start:stop selects on an axis of length len
SliceRange(start, stop, len) ==
    LET clip(x) == IF x < 0 THEN PyMax(x + len, 0) ELSE PyMin(x, len)
    IN  clip(start)..(clip(stop) - 1)

\* a[r0:r1, c0:c1] = v
SetBlock(a, r0, r1, c0, c1, v) ==
    [a EXCEPT !.data = [c \in DOMAIN a.data |->
        IF /\ c[1] \in SliceRange(r0, r1, a.shape[1])
           /\ c[2] \in SliceRange(c0, c1, a.shape[2])
        THEN v ELSE a.data[c]]]

\* variant: the slices stop one short, at i+1 and j+1
burn_short(a, i, j) == SetBlock(a, PyMax(i - 1, 0), i + 1, PyMax(j - 1, 0), j + 1, 0)

\* variant: slice starts are not clamped at 0
burn_noclamp(a, i, j) == SetBlock(a, i - 1, i + 2, j - 1, j + 2, 0)

\* arr_work[max(i-1, 0):i+2, max(j-1, 0):j+2] = 0
burn(a, i, j) == SetBlock(a, PyMax(i - 1, 0), i + 2, PyMax(j - 1, 0), j + 2, 0)

\* variant: arr_work = array, no copy
copy_alias(h, ref) == [heap |-> h, ref |-> ref]

\* array.copy(): a new object holding the same cells
copy(h, ref) ==
    LET new == Cardinality(DOMAIN h) + 1
    IN  [heap |-> [o \in DOMAIN h \cup {new} |-> IF o = new THEN h[ref] ELSE h[o]],
         ref  |-> new]

\* variant: the maximum is not tested
LoopTest_nomax(a, it, n) == it <= n

\* variant: one pass too many
LoopTest_offbyone(a, it, n) == NdMax(a) # 0 /\ it <= n + 1

\* variant: the pass that fills the cap is not made
LoopTest_strict(a, it, n) == NdMax(a) # 0 /\ it < n

\* arr_work.max() != 0 and iterate <= num_iter
LoopTest(a, it, n) == NdMax(a) # 0 /\ it <= n

\* the matrix of the example in the peak-suppression test
Example == reshape(<<1, 9, 2, 3, 4, 5, 6, 0, 8>>, 3, 3)

Matrices ==
    UNION {[shape : {sh}, data : [Cells(sh[1], sh[2]) -> -1..MaxVal]] : sh \in Shapes}

InitPeak ==
    /\ pc = "peak_start"
    /\ heap \in {[o \in {1} |-> m] : m \in Matrices \cup {Example}}
    /\ array = 1
    /\ num_iter \in 0..MaxIter
    /\ arr_work = Unset
    /\ indices = Unset
    /\ iterate = Unset
    /\ peak_ret = Unset
    /\ M = Unset /\ N = Unset
    /\ IndexUnused
    /\ SnakeUnused
    /\ RasterUnused
    /\ GovUnused

\* arr_work = array.copy(); indices = []; iterate = 1
PeakSetup ==
    /\ pc = "peak_start"
    /\ heap' = copy(heap, array).heap
    /\ arr_work' = copy(heap, array).ref
    /\ indices' = <<>>
    /\ iterate' = 1
    /\ pc' = "peak_loop"
    /\ UNCHANGED <<govVars, array, num_iter, peak_ret, M, N, idxVars, snakeVars, rasterVars>>

\* one pass through the body of the while loop
PeakIterate ==
    /\ pc = "peak_loop"
    /\ LoopTest(heap[arr_work], iterate, num_iter)
    /\ iterate' = iterate + 1
    /\ LET ij == unravel_index(argmax(heap[arr_work]), heap[arr_work].shape)
       IN  /\ indices' = Append(indices, ij)
           /\ heap' = [heap EXCEPT ![arr_work] = burn(heap[arr_work], ij[1], ij[2])]
    /\ UNCHANGED <<govVars, pc, array, num_iter, arr_work, peak_ret,
                   M, N, idxVars, snakeVars, rasterVars>>

\* the loop condition fails: return indices, arr_work
PeakReturn ==
    /\ pc = "peak_loop"
    /\ ~LoopTest(heap[arr_work], iterate, num_iter)
    /\ peak_ret' = <<indices, heap[arr_work]>>
    /\ pc' = "peak_done"
    /\ UNCHANGED <<govVars, heap, array, num_iter, arr_work, indices, iterate,
                   M, N, idxVars, snakeVars, rasterVars>>

NextPeak == PeakSetup \/ PeakIterate \/ PeakReturn

SpecPeak == InitPeak /\ [][NextPeak]_vars

(* --------------------------- peak finder claims ------------------------ *)
\* C5: peak suppression example - on [[1,9,2],[3,4,5],[6,0,8]] with
\* num_iter = 2 the peak list returned is [(0,1), (2,2)], in that order.
C5_Example ==
    (pc = "peak_done" /\ heap[array] = Example /\ num_iter = 2) =>
        peak_ret[1] = <<<<0, 1>>, <<2, 2>>>>

\* the call on the example matrix with num_iter = 2 has returned two peaks
C5_Witness ==
    /\ pc = "peak_done"
    /\ heap[array] = Example
    /\ num_iter = 2
    /\ Len(peak_ret[1]) = 2

AllZero(a) == \A c \in DOMAIN a.data : a.data[c] = 0

\* number of cells of a that are not 0
NonZeroCount(a) == Cardinality({c \in DOMAIN a.data : a.data[c] # 0})

\* C6: termination bound - peakfind_maxburn terminates (every pass through
\* the loop body records one peak and strictly lowers the number of non-zero
\* cells of the working copy, so the loop is left after at most R*C passes),
\* its peak list never has more than min(num_iter, R*C) entries, and for an
\* all-zero matrix the returned peak list is empty.
C6_TerminationBound ==
    /\ [](pc \in {"peak_loop", "peak_done"} =>
            Len(indices) <= PyMin(num_iter,
                                  heap[array].shape[1] * heap[array].shape[2]))
    /\ [](pc = "peak_done" /\ AllZero(heap[array]) => peak_ret[1] = <<>>)
    /\ [][pc = "peak_loop" /\ pc' = "peak_loop" =>
            /\ NonZeroCount(heap'[arr_work']) < NonZeroCount(heap[arr_work])
            /\ Len(indices') = Len(indices) + 1]_vars

\* a call has returned exactly num_iter peaks from a matrix that had more
\* non-zero cells left
C6_Witness ==
    /\ pc = "peak_done"
    /\ num_iter >= 1
    /\ Len(peak_ret[1]) = num_iter
    /\ ~AllZero(peak_ret[2])

\* the original matrix with the 3x3 neighbourhoods of the given peaks zeroed
BurntBy(a, peaks) ==
    [a EXCEPT !.data = [c \in DOMAIN a.data |->
        IF \E n \in 1..Len(peaks) :
              /\ c[1] - peaks[n][1] \in -1..1
              /\ c[2] - peaks[n][2] \in -1..1
        THEN 0 ELSE a.data[c]]]

\* c comes before d in row-major order
RowMajorBefore(c, d) == c[1] < d[1] \/ (c[1] = d[1] /\ c[2] < d[2])

\* c is the row-major first position of the maximum of a
IsFirstMax(a, c) ==
    /\ c \in DOMAIN a.data
    /\ \A d \in DOMAIN a.data : a.data[d] <= a.data[c]
    /\ \A d \in DOMAIN a.data : a.data[d] = a.data[c] /\ d # c => RowMajorBefore(c, d)

\* C7: peak ordering and tie-breaking - entry n of the peak list is the
\* position of the maximum of the original matrix with the 3x3 neighbourhoods
\* of entries 0..n-1 zeroed (entry 0: of the original matrix itself), and
\* among several positions of the maximum it is the first in row-major order.
C7_OrderAndTies ==
    pc \in {"peak_loop", "peak_done"} =>
        \A n \in 1..Len(indices) :
            IsFirstMax(BurntBy(heap[array], SubSeq(indices, 1, n - 1)), indices[n])

\* a second peak has been recorded where the surviving maximum occurred at
\* two positions
C7_Witness ==
    /\ pc = "peak_done"
    /\ Len(indices) = 2
    /\ \E d \in DOMAIN heap[array].data :
          /\ d # indices[2]
          /\ BurntBy(heap[array], <<indices[1]>>).data[d]
                = BurntBy(heap[array], <<indices[1]>>).data[indices[2]]

\* C8: the input is never mutated - no step of peakfind_maxburn changes a
\* cell of the caller's matrix; the zeroing happens on the working copy,
\* which is what is returned as the second result.
C8_InputNotMutated ==
    [][/\ heap'[array'] = heap[array]
       /\ (pc' = "peak_done" => peak_ret'[2] = heap'[arr_work'])]_vars

\* a call has returned after burning cells, and the caller's matrix differs
\* from the returned working copy
C8_Witness ==
    /\ pc = "peak_done"
    /\ Len(indices) >= 1
    /\ arr_work # array
    /\ peak_ret[2] # heap[array]

(* ------------------ determine_raster_shape on any definition ----------- *)
\* what a call of determine_raster_shape ends with: rowDefs[0] of an empty
\* list raises IndexError, nothing else in the function checks its input
determine_raster_shape_outcome(rdef) ==
    IF Len(rdef.rowDefs) = 0 THEN Raise("IndexError")
    ELSE Returned(determine_raster_shape(rdef))

\* row segments as a caller can hand them over, numsteps unchecked
AnyRowSegments ==
    {[start |-> [x |-> 0, y |-> 0], end |-> [x |-> 1 - dy, y |-> dy], numsteps |-> n] :
        dy \in {0, 1}, n \in 0..MaxSteps}

AnyRasterDefs ==
    {[rowDefs |-> segs] : segs \in UNION {[1..len -> AnyRowSegments] : len \in 0..MaxSegs}}

InitShape ==
    /\ pc = "shape_start"
    /\ raster_def \in AnyRasterDefs
    /\ raster_shape = Unset
    /\ max_index = Unset
    /\ max_col = Unset
    /\ col_indices = Unset
    /\ M = Unset /\ N = Unset
    /\ IndexUnused
    /\ SnakeUnused
    /\ PeakUnused
    /\ GovUnused

\* determine_raster_shape(raster_def) returns (raster_dir, num_rows, num_cols)
ShapeReturn ==
    /\ pc = "shape_start"
    /\ ~determine_raster_shape_outcome(raster_def).raised
    /\ raster_shape' = determine_raster_shape_outcome(raster_def)
    /\ pc' = "shape_done"
    /\ UNCHANGED <<govVars, raster_def, max_index, max_col, col_indices,
                   M, N, idxVars, snakeVars, peakVars>>

\* determine_raster_shape(raster_def) raises
ShapeRaise ==
    /\ pc = "shape_start"
    /\ determine_raster_shape_outcome(raster_def).raised
    /\ raster_shape' = determine_raster_shape_outcome(raster_def)
    /\ pc' = "shape_raised"
    /\ UNCHANGED <<govVars, raster_def, max_index, max_col, col_indices,
                   M, N, idxVars, snakeVars, peakVars>>

NextShape == ShapeReturn \/ ShapeRaise

SpecShape == InitShape /\ [][NextShape]_vars

\* the first segment runs along x
FirstSegHorizontal(rdef) == rdef.rowDefs[1].start.y = rdef.rowDefs[1].end.y

\* every segment has at least one step
WellFormed(rdef) ==
    /\ Len(rdef.rowDefs) >= 1
    /\ \A s \in 1..Len(rdef.rowDefs) : rdef.rowDefs[s].numsteps >= 1

\* C11 as stated: for either direction the shape of a (well-formed) raster
\* definition has rows = number of row segments and cols = numsteps of a
\* segment.
C11_RowsAreSegments ==
    (pc = "shape_done" /\ WellFormed(raster_def)) =>
        /\ raster_shape.value[2] = Len(raster_def.rowDefs)
        /\ \E s \in 1..Len(raster_def.rowDefs) :
              raster_shape.value[3] = raster_def.rowDefs[s].numsteps

\* C11 (amended): for a horizontal raster definition (first segment with
\* start.y = end.y) rows is the number of row segments and cols the first
\* segment's numsteps; for a vertical one the two are swapped: rows is the
\* first segment's numsteps and cols the number of row segments.
C11_ShapeByDirection ==
    pc = "shape_done" =>
        IF FirstSegHorizontal(raster_def)
        THEN raster_shape.value = <<"horizontal", Len(raster_def.rowDefs),
                                    raster_def.rowDefs[1].numsteps>>
        ELSE raster_shape.value = <<"vertical", raster_def.rowDefs[1].numsteps,
                                    Len(raster_def.rowDefs)>>

\* the shape of a vertical raster of three segments of two steps has been
\* returned as two rows and three columns
C11_Witness ==
    /\ pc = "shape_done"
    /\ ~FirstSegHorizontal(raster_def)
    /\ Len(raster_def.rowDefs) = 3
    /\ raster_def.rowDefs[1].numsteps = 2
    /\ raster_shape.value = <<"vertical", 2, 3>>

\* C16: determine_raster_shape fails when rowDefs is empty or the first
\* segment's numsteps is less than 1, and never returns a shape with
\* rows < 1 or cols < 1.
C16_MalformedRasterFails ==
    pc \in {"shape_done", "shape_raised"} =>
        /\ (Len(raster_def.rowDefs) = 0 => raster_shape.raised)
        /\ (Len(raster_def.rowDefs) > 0 /\ raster_def.rowDefs[1].numsteps < 1
                => raster_shape.raised)
        /\ (~raster_shape.raised =>
                raster_shape.value[2] >= 1 /\ raster_shape.value[3] >= 1)

(* ------------- calculate_flattened_index on any pair and pattern ------- *)
\* the caller holds a pair (i, j) = rc, inside or just outside the grid
InitFlat ==
    /\ pc = "have_pair"
    /\ M \in 1..MaxM
    /\ N \in 1..MaxN
    /\ pattern \in Patterns
    /\ rc \in (-1..MaxM) \X (-1..MaxN)
    /\ rc[1] <= M /\ rc[2] <= N
    /\ k = Unset
    /\ flat_k = Unset
    /\ SnakeUnused
    /\ RasterUnused
    /\ PeakUnused
    /\ GovUnused

\* calculate_flattened_index(i, j, M, N, pattern) returns an index
FlatReturn ==
    /\ pc = "have_pair"
    /\ ~calculate_flattened_index(rc[1], rc[2], M, N, pattern).raised
    /\ flat_k' = calculate_flattened_index(rc[1], rc[2], M, N, pattern)
    /\ pc' = "flat_returned"
    /\ UNCHANGED <<govVars, k, M, N, pattern, rc, snakeVars, rasterVars, peakVars>>

\* calculate_flattened_index(i, j, M, N, pattern) raises
FlatRaise ==
    /\ pc = "have_pair"
    /\ calculate_flattened_index(rc[1], rc[2], M, N, pattern).raised
    /\ flat_k' = calculate_flattened_index(rc[1], rc[2], M, N, pattern)
    /\ pc' = "flat_raised"
    /\ UNCHANGED <<govVars, k, M, N, pattern, rc, snakeVars, rasterVars, peakVars>>

NextFlat == FlatReturn \/ FlatRaise

SpecFlat == InitFlat /\ [][NextFlat]_vars

FlatCalled == pc \in {"flat_returned", "flat_raised"}

\* C12 as stated: with pattern None and the dimensions passed as (rows, cols)
\* the index returned for a cell (i, j) of the grid is i*rows + j.
C12_NoneStrideRows ==
    (FlatCalled /\ pattern = PyNone /\ rc \in Cells(M, N)) =>
        flat_k = Returned(rc[1] * M + rc[2])

\* C12 (amended): with pattern None and the dimensions passed positionally as
\* (rows, cols) the index returned is i*cols + j - the row stride is cols.
C12_NoneStrideCols ==
    (FlatCalled /\ pattern = PyNone) => flat_k = Returned(rc[1] * N + rc[2])

\* the last cell of a 2 x 3 grid has been flattened without snaking
C12_Witness ==
    /\ pc = "flat_returned"
    /\ pattern = PyNone
    /\ M = 2 /\ N = 3
    /\ rc = <<1, 2>>
    /\ flat_k = Returned(5)

\* C13: for every pattern other than horizontal, vertical and None the call
\* raises ValueError and returns no index, whatever the other arguments are.
C13_InvalidPatternRaises ==
    (FlatCalled /\ pattern \notin Snaking \cup {PyNone}) =>
        /\ pc = "flat_raised"
        /\ flat_k.raised
        /\ flat_k.exc = "ValueError"

\* a call with an unknown pattern and a pair inside the grid has raised
C13_Witness ==
    /\ pc = "flat_raised"
    /\ pattern = "diagonal"
    /\ rc[1] \in 0..(M - 1) /\ rc[2] \in 0..(N - 1)
    /\ flat_k.raised

\* C14: calculate_matrix_index fails, and returns no coordinate pair, whenever
\* k < 0 or k >= rows*cols.
C14_OutOfRangeFails ==
    (pc = "mapped" /\ pattern \in Snaking /\ (k < 0 \/ k >= M * N)) =>
        Len(rc) # 2

\* C15: for a horizontal or vertical raster, create_snake_array raises (the
\* ValueError of reshape) and produces no matrix whenever the flat list does
\* not hold exactly M*N samples; a matrix that is returned is always the full
\* M x N matrix of a list of M*N samples.
C15_LengthMismatchFails ==
    pc \in {"snake_done", "snake_raised"} =>
        /\ (raster_type \in Snaking /\ Len(flattened) # M * N) =>
                /\ pc = "snake_raised"
                /\ array_2d.raised
                /\ array_2d.exc = "ValueError"
        /\ ~array_2d.raised =>
                /\ Len(flattened) = M * N
                /\ array_2d.value.shape = <<M, N>>
                /\ DOMAIN array_2d.value.data = Cells(M, N)

\* a call with one sample too many for a single-column vertical raster has
\* raised
C15_Witness ==
    /\ pc = "snake_raised"
    /\ raster_type = "vertical"
    /\ M = 2 /\ N = 1
    /\ Len(flattened) = 3
    /\ array_2d.raised
    /\ array_2d.exc = "ValueError"

\* rc_to_linear as section 4.1 states it
RefRcToLinear(i, j, rows, cols, direction) ==
    CASE direction = "horizontal" ->
            IF i % 2 = 0 THEN i * cols + j ELSE i * cols + (cols - 1 - j)
      [] direction = "vertical" ->
            IF j % 2 = 0 THEN j * rows + i ELSE j * rows + (rows - 1 - i)

\* C19: for a column col of the grid, get_flattened_indices_of_max_col
\* returns a list of exactly rows entries whose entry for row i is
\* rc_to_linear(i, col, rows, cols, direction); the entries lie in
\* [0, rows*cols), are pairwise distinct, and calculate_matrix_index maps each
\* of them back to column col.
C19_ColumnList ==
    pc = "have_indices" =>
        LET shape == determine_raster_shape(raster_def)
            dir == shape[1]
            rows == shape[2]
            cols == shape[3]
        IN  /\ max_col \in 0..(cols - 1)
            /\ Len(col_indices) = rows
            /\ \A n \in 1..Len(col_indices) :
                  /\ col_indices[n] = RefRcToLinear(n - 1, max_col, rows, cols, dir)
                  /\ col_indices[n] \in 0..(rows * cols - 1)
                  /\ calculate_matrix_index(col_indices[n], rows, cols, dir)
                        = <<n - 1, max_col>>
            /\ \A n1, n2 \in 1..Len(col_indices) :
                  n1 # n2 => col_indices[n1] # col_indices[n2]

\* the reversed column of a vertical raster of two segments of three steps
\* has been listed
C19_Witness ==
    /\ pc = "have_indices"
    /\ determine_raster_shape(raster_def) = <<"vertical", 3, 2>>
    /\ max_col = 1
    /\ col_indices = <<5, 4, 3>>

\* (r, c) lies in the 3 x 3 block around (i, j)
Near(c, p) == c[1] - p[1] \in -1..1 /\ c[2] - p[2] \in -1..1

\* C17: burn step - a pass that records peak (i, j) sets to 0 exactly the
\* cells (r, c) of the working copy with |r - i| <= 1 and |c - j| <= 1 and
\* leaves every other cell as it was; nothing wraps around to the last row or
\* column.
C17_BurnStep ==
    [][(pc = "peak_loop" /\ pc' = "peak_loop") =>
          /\ Len(indices') = Len(indices) + 1
          /\ arr_work' = arr_work
          /\ heap'[arr_work].shape = heap[arr_work].shape
          /\ DOMAIN heap'[arr_work].data = DOMAIN heap[arr_work].data
          /\ \A c \in DOMAIN heap[arr_work].data :
                heap'[arr_work].data[c] =
                    IF Near(c, indices'[Len(indices')]) THEN 0
                    ELSE heap[arr_work].data[c]]_vars

\* a peak in row 0 of a 3 x 2 matrix has been burnt: the non-zero cell next to
\* it is 0 and the last row still holds its value
C17_Witness ==
    /\ pc = "peak_loop"
    /\ heap[array].shape = <<3, 2>>
    /\ indices = <<<<0, 0>>>>
    /\ heap[array].data[<<1, 1>>] # 0
    /\ heap[arr_work].data[<<1, 1>>] = 0
    /\ heap[arr_work].data[<<2, 0>>] # 0
    /\ heap[arr_work].data[<<2, 1>>] # 0

\* the loop test has just succeeded: the body is entered next
LoopBodyEntry ==
    pc = "peak_loop" /\ LoopTest(heap[arr_work], iterate, num_iter)

\* C18 as stated: at every entry into the loop body, for any input matrix,
\* fewer than num_iter peaks have been recorded and the maximum of the working
\* copy is greater than 0.
C18_LoopEntryPositive ==
    LoopBodyEntry =>
        /\ Len(indices) < num_iter
        /\ NdMax(heap[arr_work]) > 0

NoNegativeCell(a) == \A c \in DOMAIN a.data : a.data[c] >= 0

\* C18 (amended): at every entry into the loop body fewer than num_iter peaks
\* have been recorded and the maximum of the working copy is not 0; it is
\* greater than 0 whenever the input matrix has no negative cell.
C18_LoopEntryNonZero ==
    LoopBodyEntry =>
        /\ Len(indices) < num_iter
        /\ NdMax(heap[arr_work]) # 0
        /\ (NoNegativeCell(heap[array]) => NdMax(heap[arr_work]) > 0)

\* the loop body is about to be entered for the first time on a 2 x 3 working
\* copy whose maximum is negative
C18_Witness ==
    /\ LoopBodyEntry
    /\ indices = <<>>
    /\ num_iter = 2
    /\ heap[arr_work].shape = <<2, 3>>
    /\ NdMax(heap[arr_work]) < 0

\* C20: any two different entries (i1, j1), (i2, j2) of the peak list satisfy
\* max(|i1 - i2|, |j1 - j2|) >= 2: no peak lies in the 3 x 3 neighbourhood of
\* another and no coordinate is recorded twice.
C20_PeaksApart ==
    pc \in {"peak_loop", "peak_done"} =>
        \A n1, n2 \in 1..Len(indices) :
            n1 # n2 => ~Near(indices[n1], indices[n2])

\* two peaks exactly two columns apart have been returned
C20_Witness ==
    /\ pc = "peak_done"
    /\ peak_ret[1] = <<<<0, 0>>, <<0, 2>>>>

\* C21: exhaustion on early stop - whenever peakfind_maxburn returns fewer
\* than num_iter peaks for a matrix of non-negative values, the returned burnt
\* array is all zeros and every cell that was non-zero in the original matrix
\* lies within the clamped 3 x 3 neighbourhood of at least one returned peak;
\* and in every case each cell of the burnt array is 0 or its original value.
C21_ExhaustionOnEarlyStop ==
    pc = "peak_done" =>
        /\ DOMAIN peak_ret[2].data = DOMAIN heap[array].data
        /\ \A c \in DOMAIN heap[array].data :
              peak_ret[2].data[c] \in {0, heap[array].data[c]}
        /\ (NoNegativeCell(heap[array]) /\ Len(peak_ret[1]) < num_iter) =>
              /\ AllZero(peak_ret[2])
              /\ \A c \in DOMAIN heap[array].data :
                    heap[array].data[c] # 0 =>
                        \E n \in 1..Len(peak_ret[1]) : Near(c, peak_ret[1][n])

\* a call with num_iter = 2 has returned after one peak: the matrix had no
\* negative cell and two non-zero cells, both burnt by that peak
C21_Witness ==
    /\ pc = "peak_done"
    /\ num_iter = 2
    /\ Len(peak_ret[1]) = 1
    /\ NoNegativeCell(heap[array])
    /\ NonZeroCount(heap[array]) = 2
    /\ AllZero(peak_ret[2])

\* every segment has the step count of the first
UniformSegments(rdef) ==
    \A n \in 1..Len(rdef.rowDefs) :
        rdef.rowDefs[n].numsteps = rdef.rowDefs[1].numsteps

\* position along segment s of the cell visited at linear index kk, when
\* segments of n steps are traversed in alternating directions
AlongSegment(kk, s, n) ==
    IF s % 2 = 0 THEN kk - s * n ELSE n - 1 - (kk - s * n)

\* C22: the shape is canonical for the index mapping - for a raster
\* definition with S >= 1 segments of n >= 1 steps each,
\* determine_raster_shape returns rows * cols = S * n, and
\* calculate_matrix_index fed its (direction, rows, cols) unchanged maps every
\* linear index k of scan segment s (s*n <= k < (s+1)*n) to row s when the
\* first segment has start.y = end.y and to column s otherwise, consecutive
\* segments being traversed in opposite directions.
C22_ShapeCanonical ==
    (pc = "have_col" /\ UniformSegments(raster_def)) =>
        LET S == Len(raster_def.rowDefs)
            n == raster_def.rowDefs[1].numsteps
            shape == determine_raster_shape(raster_def)
            s == max_index \div n
            ij == calculate_matrix_index(max_index, shape[2], shape[3], shape[1])
        IN  /\ shape[2] * shape[3] = S * n
            /\ s \in 0..(S - 1)
            /\ max_col = ij[2]
            /\ IF FirstSegHorizontal(raster_def)
               THEN /\ shape[1] = "horizontal"
                    /\ ij = <<s, AlongSegment(max_index, s, n)>>
               ELSE /\ shape[1] = "vertical"
                    /\ ij = <<AlongSegment(max_index, s, n), s>>

\* the column of index 4 of a vertical raster of two segments of three steps
\* has been looked up: it is column 1, the second segment
C22_Witness ==
    /\ pc = "have_col"
    /\ UniformSegments(raster_def)
    /\ ~FirstSegHorizontal(raster_def)
    /\ Len(raster_def.rowDefs) = 2
    /\ raster_def.rowDefs[1].numsteps = 3
    /\ max_index = 4
    /\ max_col = 1

(* --------------------------- setGovRobot, waitGov ---------------------- *)
\* governor states: the four of the test on line 20 and two others
GovStates == {"SA", "DA", "DI", "SE", "M", "TA"}

\* a local variable that has not been assigned
Unbound == "unbound"
\* the reference to the status object gov_robot.set returned
StatusRef == "status"
\* gov_robot.set has not made a status object
NoStatus == "none"

\* a status object as gov_robot.set hands it back: still running, or
\* already finished with or without success
NewStatuses ==
    {[done |-> FALSE, success |-> FALSE],
     [done |-> TRUE, success |-> TRUE],
     [done |-> TRUE, success |-> FALSE]}

Finished(ok) == [done |-> TRUE, success |-> ok]

LogRecord(level, msg) == [level |-> level, msg |-> msg]

InitGov ==
    /\ pc = "gov_start"
    /\ state \in GovStates
    /\ wait \in BOOLEAN
    /\ status = NoStatus
    /\ govStatus = Unbound
    /\ log = <<>>
    /\ gov_ret = Unset
    /\ M = Unset /\ N = Unset
    /\ IndexUnused
    /\ SnakeUnused
    /\ RasterUnused
    /\ PeakUnused

\* logger.info(f"setGovRobot{state}")
GovLogCall ==
    /\ pc = "gov_start"
    /\ log' = Append(log, LogRecord("info", "setGovRobot"))
    /\ pc' = "gov_set"
    /\ UNCHANGED <<state, wait, status, govStatus, gov_ret,
                   M, N, idxVars, snakeVars, rasterVars, peakVars>>

\* govStatus = gov_robot.set(state): the call returns a status object
GovSetReturns ==
    /\ pc = "gov_set"
    /\ status' \in NewStatuses
    /\ govStatus' = StatusRef
    /\ pc' = IF wait THEN "gov_wait" ELSE "gov_test"
    /\ UNCHANGED <<state, wait, log, gov_ret,
                   M, N, idxVars, snakeVars, rasterVars, peakVars>>

\* govStatus = gov_robot.set(state): the call raises, nothing is assigned
\* and control passes to the except clause
GovSetRaises ==
    /\ pc = "gov_set"
    /\ pc' = "gov_except"
    /\ UNCHANGED <<state, wait, status, govStatus, log, gov_ret,
                   M, N, idxVars, snakeVars, rasterVars, peakVars>>

\* waitGov: ophyd.status.wait returns, the status has finished with success
WaitGovReturns ==
    /\ pc = "gov_wait"
    /\ status.done => status.success
    /\ status' = Finished(TRUE)
    /\ pc' = "gov_test"
    /\ UNCHANGED <<state, wait, govStatus, log, gov_ret,
                   M, N, idxVars, snakeVars, rasterVars, peakVars>>

\* waitGov: ophyd.status.wait raises WaitTimeoutError (the status is still
\* running after GOVERNOR_TIMEOUT) or StatusTimeoutError (the status failed
\* on its own timeout); the except clause of waitGov logs and returns
WaitGovTimeout ==
    /\ pc = "gov_wait"
    /\ \E e \in {"StatusTimeoutError", "WaitTimeoutError"} :
          IF e = "WaitTimeoutError"
          THEN ~status.done /\ status' = status
          ELSE ~(status.done /\ status.success) /\ status' = Finished(FALSE)
    /\ log' = Append(log, LogRecord("error", "Governor Timeout!"))
    /\ pc' = "gov_test"
    /\ UNCHANGED <<state, wait, govStatus, gov_ret,
                   M, N, idxVars, snakeVars, rasterVars, peakVars>>

\* waitGov: ophyd.status.wait raises the exception of a status that failed
\* for another reason; waitGov does not catch it, setGovRobot does
WaitGovRaises ==
    /\ pc = "gov_wait"
    /\ ~(status.done /\ status.success)
    /\ status' = Finished(FALSE)
    /\ pc' = "gov_except"
    /\ UNCHANGED <<state, wait, govStatus, log, gov_ret,
                   M, N, idxVars, snakeVars, rasterVars, peakVars>>

\* the test of line 20, whose body is pass, and return govStatus
GovReturn ==
    /\ pc = "gov_test"
    /\ gov_ret' = Returned(govStatus)
    /\ pc' = "gov_done"
    /\ UNCHANGED <<state, wait, status, govStatus, log,
                   M, N, idxVars, snakeVars, rasterVars, peakVars>>

\* except Exception: log, then return govStatus; reading govStatus while it
\* is unbound raises UnboundLocalError, which leaves the function
GovExcept ==
    /\ pc = "gov_except"
    /\ log' = Append(log, LogRecord("info", "Governor did not reach"))
    /\ gov_ret' = IF govStatus = Unbound
                  THEN Raise("UnboundLocalError")
                  ELSE Returned(govStatus)
    /\ pc' = "gov_done"
    /\ UNCHANGED <<state, wait, status, govStatus,
                   M, N, idxVars, snakeVars, rasterVars, peakVars>>

NextGov ==
    \/ GovLogCall
    \/ GovSetReturns
    \/ GovSetRaises
    \/ WaitGovReturns
    \/ WaitGovTimeout
    \/ WaitGovRaises
    \/ GovReturn
    \/ GovExcept

SpecGov == InitGov /\ [][NextGov]_vars

\* the logger has a record with this message
Logged(msg) == \E n \in 1..Len(log) : log[n].msg = msg

\* C23: setGovRobot never propagates an exception to its caller - for every
\* outcome of gov_robot.set(state) and of the optional wait (success, governor
\* timeout, or any exception raised by set or by the wait) it logs and
\* returns a status value; a governor timeout inside waitGov is swallowed
\* there and the status from set is still returned.
C23_NeverPropagates ==
    pc = "gov_done" =>
        /\ log # <<>>
        /\ ~gov_ret.raised
        /\ gov_ret.value = StatusRef
        /\ Logged("Governor Timeout!") => ~Logged("Governor did not reach")

====
